---- MODULE Spec2Model ----
(***************************************************************************)
(* A model of HookTemplateAgent.run (backend/director/agents/              *)
(* hook_template.py) invoked through BaseAgent.safe_call                   *)
(* (backend/spielberg/agents/base.py).                                     *)
(*                                                                         *)
(* One invocation is a sequential program; pc is its position.  The three  *)
(* collaborators (video data source, LLM, session sink) are the            *)
(* environment: every call to one of them draws its outcome (a value, an   *)
(* empty result, or a raised Exception) from a small set.  "Raise" always  *)
(* means an exception derived from Exception, the class both handlers      *)
(* catch.                                                                  *)
(*                                                                         *)
(* Python text that is only ever compared or sliced is modelled as         *)
(* follows: a transcript is the sequence of its characters, so that the    *)
(* slice [:1000] is a real prefix; the rendered template is the            *)
(* sequence of its lines (the text is these lines joined by "\n"); the     *)
(* LLM prompt is the record of the three interpolated holes of the fixed   *)
(* f-string; the LLM reply is the JSON document it encodes.                *)
(***************************************************************************)
EXTENDS Integers, Sequences, FiniteSets, TLC

VARIABLES
  pc,            \* position of the invocation
  inv,           \* 1: the invocation; 2: its re-invocation on a video whose transcript exists
  args,          \* [video_id, collection_id, prompt]
  text_content,  \* the TextContent object of run (None before line 90)
  actions,       \* output_message.actions
  wire,          \* what the session sink has delivered, in order
  calls,         \* history: every collaborator call made, in order
  transcript,    \* local of run
  scenes,        \* local of run
  llm_prompt,    \* local of run
  llm_response,  \* local of run
  template,      \* local of run
  exc,           \* the exception in flight / caught
  run_result,    \* how run ended: returned a response, or raised
  safe_result,   \* what safe_call returned
  env,           \* the collaborators' outcomes of invocation 1, by call site
  first          \* the observable result of invocation 1

vars == <<pc, inv, args, text_content, actions, wire, calls, transcript, scenes,
          llm_prompt, llm_response, template, exc, run_result, safe_result, env, first>>

locals == <<transcript, scenes, llm_prompt, llm_response, template>>
results == <<run_result, safe_result>>

----------------------------------------------------------------------------
(* Bounds of the model. *)

MaxTranscriptLen == 1001
MaxScenes == 6
MaxVisuals == 2

(* Program constants. *)

TranscriptLimit == 1000
SceneLimit == 5

----------------------------------------------------------------------------
(* Python values. *)

None == [kind |-> "None"]
Str(s) == [kind |-> "str", val |-> s]
List(l) == [kind |-> "list", val |-> l]

\* Python truthiness of None, a str and a list.
Truthy(v) == v.kind /= "None" /\ Len(v.val) > 0

\* s[:n]
Prefix(s, n) == SubSeq(s, 1, IF Len(s) < n THEN Len(s) ELSE n)

\* An exception and str(e).
Exception(type, text) == [type |-> type, text |-> text]
NoExc == Exception("", "")
StrOf(e) == IF e.type = "KeyError" THEN "'" \o e.text \o "'" ELSE e.text

\* The failure a collaborator call raises.
Failure(site) == Exception("Exception", site \o " failed")

----------------------------------------------------------------------------
(* AgentResponse: status (named result in spielberg's base), message, data. *)
(* data is a dict, modelled as its set of <<key, value>> items.             *)

AgentResponse(status, message, data) ==
  [status |-> status, message |-> message, data |-> data]

Keys(data) == {item[1] : item \in data}

agent_name == "hook_template"

----------------------------------------------------------------------------
(* The environment: what each collaborator call can produce. *)

Prompts == {"energetic", "calm"}

Text(n) == [i \in 1..n |-> ToString(i % 7)]
Transcripts == {Text(0), Text(2), Text(MaxTranscriptLen)}

SceneRecords(n) == [i \in 1..n |-> [description |-> "scene " \o ToString(i)]]
SceneLists == {SceneRecords(0), SceneRecords(1), SceneRecords(MaxScenes)}

Raised == [kind |-> "raise"]
Ok == [kind |-> "ok"]
Empty == [kind |-> "empty"]
Value(v) == [kind |-> "value", val |-> v]

SinkOutcomes == {Ok, Raised}
ToolOutcomes == {Ok, Raised}
TranscriptOutcomes == {Raised} \cup {Value(Str(t)) : t \in Transcripts}
IndexOutcomes == {Ok, Raised}
ListOutcomes == {Raised, Empty, Value("idx-1")}
SceneOutcomes == {Raised} \cup {Value(List(l)) : l \in SceneLists}
IndexSceneOutcomes == {Raised, Empty, Value("idx-new")}


\* The six fields of the hook template, in the order the f-string reads them.
Fields == <<"script", "visuals", "transitions", "music", "sound_effects", "pacing">>
FieldSet == {Fields[i] : i \in 1..Len(Fields)}

Visuals(n) == [i \in 1..n |-> "visual " \o ToString(i)]

\* A JSON object holding the fields K, with n visuals.
JsonObject(K, n) ==
  [kind |-> "object",
   members |-> [f \in K |-> IF f = "visuals" THEN Visuals(n) ELSE "the " \o f]]
Malformed == [kind |-> "malformed"]
JsonArray == [kind |-> "array"]

\* The replies' contents: not JSON, JSON but no object, an object lacking a
\* field (or all), the complete object with 0..MaxVisuals visuals.
Contents ==
  {Malformed, JsonArray, JsonObject({}, 0)}
    \cup {JsonObject(FieldSet \ {f}, 1) : f \in FieldSet}
    \cup {JsonObject(FieldSet, n) : n \in 0..MaxVisuals}

LlmReply(status, content) == [status |-> status, content |-> content]
LlmOutcomes ==
  {Raised, Value(LlmReply(FALSE, Malformed))}
    \cup {Value(LlmReply(TRUE, c)) : c \in Contents}

----------------------------------------------------------------------------
(* Pure functions of run. *)

\* json.dumps of a list of strings.
RECURSIVE JoinQuoted(_)
JoinQuoted(l) ==
  IF Len(l) = 0 THEN ""
  ELSE IF Len(l) = 1 THEN "\"" \o l[1] \o "\""
  ELSE "\"" \o l[1] \o "\", " \o JoinQuoted(Tail(l))
JsonDumps(l) == "[" \o JoinQuoted(l) \o "]"

\* The holes of the prompt f-string (lines 110, 119, 120).
TranscriptHole(t) ==
  IF Truthy(t) THEN Str(Prefix(t.val, TranscriptLimit))
  ELSE Str(<<"No transcript available">>)
ScenesHole(sc) ==
  IF Truthy(sc)
  THEN LET top == Prefix(sc.val, SceneLimit)
       IN  JsonDumps([i \in 1..Len(top) |-> top[i].description])
  ELSE "No scenes available"
BuildPromptText(prompt, t, sc) ==
  [intent |-> prompt, transcript |-> TranscriptHole(t), scenes |-> ScenesHole(sc)]

\* json.loads(content): the value, or the JSONDecodeError.
JsonLoadsFails(content) == content.kind = "malformed"

\* The first subscript template_data[...] of the f-string that fails, if any.
MissingFields(d) == {i \in 1..Len(Fields) : Fields[i] \notin DOMAIN d}
FirstMissing(d) == Fields[CHOOSE i \in MissingFields(d) : \A j \in MissingFields(d) : i <= j]

\* '\n'.join(f'- {visual}' for visual in visuals), as lines.
VisualLines(v) == IF Len(v) = 0 THEN <<"">> ELSE [i \in 1..Len(v) |-> "- " \o v[i]]

\* The rendered template (lines 160-176), as its lines.
Render(d) ==
  <<"", "Hook Script:", "\"" \o d["script"] \o "\"", "", "Visual Elements:">>
    \o VisualLines(d["visuals"])
    \o <<"", "Transitions:", d["transitions"], "", "Audio:",
         "- Music: " \o d["music"], "- Sound Effects: " \o d["sound_effects"],
         "", "Pacing:", d["pacing"], "            ">>

----------------------------------------------------------------------------
(* The session sink. *)

\* TextContent(agent_name, status, status_message), text unset.
TextContent(status, status_message) ==
  [agent_name |-> agent_name, status |-> status,
   status_message |-> status_message, text |-> <<>>]

\* What one delivery carries: the content object and the action log as they are.
Snapshot(via, content, acts) == [via |-> via, content |-> content, actions |-> acts]

Call(op, res) == [op |-> op, res |-> res]

----------------------------------------------------------------------------
(* Outcomes of the collaborators' calls, by call site.  In invocation 1 any  *)
(* outcome may occur and is recorded; invocation 2 meets the same outcomes   *)
(* at the same sites, except that its first get_transcript already returns   *)
(* the transcript that invocation 1 got after indexing.                      *)

Admissible(site, o) ==
  IF inv = 1 THEN TRUE
  ELSE IF site = "transcript_fetch" THEN o = env["transcript_refetch"]
  ELSE site \in DOMAIN env /\ o = env[site]

Observe(site, o) ==
  /\ Admissible(site, o)
  /\ env' = IF inv = 1 THEN (site :> o) @@ env ELSE env

\* raise e inside the try of run: control goes to line 190.
Throw(e) ==
  /\ exc' = e
  /\ pc' = "handle_error"

\* Mutant of Announce: the message is appended and never flushed.
AnnounceNoFlush(site, msg, next) ==
  /\ actions' = Append(actions, msg)
  /\ calls' = Append(calls, Call("append", msg))
  /\ pc' = next
  /\ UNCHANGED <<inv, args, text_content, wire, locals, exc, results, env, first>>

\* actions.append(msg); push_update() at call site `site`, then go to `next`.
Announce(site, msg, next) ==
  \E o \in SinkOutcomes :
    /\ Observe(site, o)
    /\ actions' = Append(actions, msg)
    /\ calls' = calls \o <<Call("append", msg), Call("push_update", o.kind)>>
    /\ IF o.kind = "ok"
       THEN /\ wire' = Append(wire, Snapshot("push_update", text_content, actions'))
            /\ pc' = next
            /\ exc' = exc
       ELSE /\ wire' = wire
            /\ Throw(Failure("push_update"))
    /\ UNCHANGED <<inv, args, text_content, locals, results, first>>

----------------------------------------------------------------------------
(* The state after construction: the orchestrator is about to call           *)
(* safe_call(video_id, collection_id, prompt).                               *)

Init ==
  /\ pc = "safe_call"
  /\ inv = 1
  /\ args \in [video_id : {"video-1"}, collection_id : {"collection-1"}, prompt : Prompts]
  /\ text_content = None
  /\ actions = <<>>
  /\ wire = <<>>
  /\ calls = <<>>
  /\ transcript = None
  /\ scenes = None
  /\ llm_prompt = None
  /\ llm_response = None
  /\ template = <<>>
  /\ exc = NoExc
  /\ run_result = None
  /\ safe_result = None
  /\ env = <<>>
  /\ first = None

----------------------------------------------------------------------------
(* BaseAgent.safe_call *)

\* line 61: the call of the agent's entry point.
SafeCallEnter ==
  /\ pc = "safe_call"
  /\ pc' = "run_init"
  /\ UNCHANGED <<inv, args, text_content, actions, wire, calls, locals, exc, results,
                 env, first>>

\* line 61: the entry point returned; its response is returned as it is.
SafeCallReturn ==
  /\ pc = "safe_return"
  /\ safe_result' = run_result.response
  /\ pc' = "end"
  /\ UNCHANGED <<inv, args, text_content, actions, wire, calls, locals, exc, run_result,
                 env, first>>

\* Mutant of SafeCallExcept: the response is built without result=ERROR, so
\* the field keeps its default, SUCCESS.
SafeCallExceptDefaultResult ==
  /\ pc = "safe_except"
  /\ safe_result' = AgentResponse("success", StrOf(run_result.exc), {})
  /\ pc' = "end"
  /\ UNCHANGED <<inv, args, text_content, actions, wire, calls, locals, exc, run_result,
                 env, first>>

\* lines 63-65: the entry point raised.
SafeCallExcept ==
  /\ pc = "safe_except"
  /\ safe_result' = AgentResponse("error", StrOf(run_result.exc), {})
  /\ pc' = "end"
  /\ UNCHANGED <<inv, args, text_content, actions, wire, calls, locals, exc, run_result,
                 env, first>>

----------------------------------------------------------------------------
(* HookTemplateAgent.run, lines 88-103: set-up and acquisition *)

\* lines 90-96: the content object, appended to the output message and flushed.
RunInit ==
  /\ pc = "run_init"
  /\ \E o \in SinkOutcomes :
       /\ Observe("run_init", o)
       /\ text_content' = TextContent("progress", "Analyzing video content...")
       /\ calls' = calls \o <<Call("content.append", "Analyzing video content..."),
                              Call("push_update", o.kind)>>
       /\ IF o.kind = "ok"
          THEN /\ wire' = Append(wire, Snapshot("push_update", text_content', actions))
               /\ pc' = "make_tool"
               /\ exc' = exc
          ELSE /\ wire' = wire
               /\ Throw(Failure("push_update"))
  /\ UNCHANGED <<inv, args, actions, locals, results, first>>

\* line 99: VideoDBTool(collection_id=collection_id)
MakeTool ==
  /\ pc = "make_tool"
  /\ \E o \in ToolOutcomes :
       /\ Observe("make_tool", o)
       /\ calls' = Append(calls, Call("VideoDBTool", o.kind))
       /\ IF o.kind = "ok"
          THEN pc' = "transcript_announce" /\ exc' = exc
          ELSE Throw(Failure("VideoDBTool"))
  /\ UNCHANGED <<inv, args, text_content, actions, wire, locals, results, first>>

\* lines 42-43
TranscriptAnnounce ==
  /\ pc = "transcript_announce"
  /\ Announce("transcript_announce", "Processing video transcript...", "transcript_fetch")

\* lines 44-47: the first fetch; its failure is caught by _get_transcript.
TranscriptFetch ==
  /\ pc = "transcript_fetch"
  /\ \E o \in TranscriptOutcomes :
       /\ Observe("transcript_fetch", o)
       /\ calls' = Append(calls, Call("get_transcript", o.kind))
       /\ IF o.kind = "value"
          THEN transcript' = o.val /\ pc' = "scenes_announce"
          ELSE transcript' = transcript /\ pc' = "index_announce"
  /\ UNCHANGED <<inv, args, text_content, actions, wire, scenes, llm_prompt, llm_response,
                 template, exc, results, first>>

\* lines 48-49
IndexAnnounce ==
  /\ pc = "index_announce"
  /\ Announce("index_announce", "Indexing video speech...", "index_spoken_words")

\* line 50
IndexSpokenWords ==
  /\ pc = "index_spoken_words"
  /\ \E o \in IndexOutcomes :
       /\ Observe("index_spoken_words", o)
       /\ calls' = Append(calls, Call("index_spoken_words", o.kind))
       /\ IF o.kind = "ok"
          THEN pc' = "transcript_refetch" /\ exc' = exc
          ELSE Throw(Failure("index_spoken_words"))
  /\ UNCHANGED <<inv, args, text_content, actions, wire, locals, results, first>>

\* Mutant of TranscriptRefetch: line 51 without its return, so the fallback
\* yields None.
TranscriptRefetchNoReturn ==
  /\ pc = "transcript_refetch"
  /\ \E o \in TranscriptOutcomes :
       /\ Observe("transcript_refetch", o)
       /\ calls' = Append(calls, Call("get_transcript", o.kind))
       /\ transcript' = None
       /\ IF o.kind = "value"
          THEN pc' = "scenes_announce" /\ exc' = exc
          ELSE Throw(Failure("get_transcript"))
  /\ UNCHANGED <<inv, args, text_content, actions, wire, scenes, llm_prompt, llm_response,
                 template, results, first>>

\* Mutant of TranscriptRefetch: a failed retry indexes and fetches again.
TranscriptRefetchLoop ==
  /\ pc = "transcript_refetch"
  /\ \E o \in TranscriptOutcomes :
       /\ Observe("transcript_refetch", o)
       /\ calls' = Append(calls, Call("get_transcript", o.kind))
       /\ IF o.kind = "value"
          THEN transcript' = o.val /\ pc' = "scenes_announce"
          ELSE transcript' = transcript /\ pc' = "index_announce"
  /\ UNCHANGED <<inv, args, text_content, actions, wire, scenes, llm_prompt, llm_response,
                 template, exc, results, first>>

\* line 51: the retried fetch; its failure leaves _get_transcript.
TranscriptRefetch ==
  /\ pc = "transcript_refetch"
  /\ \E o \in TranscriptOutcomes :
       /\ Observe("transcript_refetch", o)
       /\ calls' = Append(calls, Call("get_transcript", o.kind))
       /\ IF o.kind = "value"
          THEN transcript' = o.val /\ pc' = "scenes_announce" /\ exc' = exc
          ELSE transcript' = transcript /\ Throw(Failure("get_transcript"))
  /\ UNCHANGED <<inv, args, text_content, actions, wire, scenes, llm_prompt, llm_response,
                 template, results, first>>

\* lines 55-56
ScenesAnnounce ==
  /\ pc = "scenes_announce"
  /\ Announce("scenes_announce", "Analyzing video scenes...", "list_scene_index")

\* lines 58-59, 62: the listing, outside any try of _get_scenes.
ListSceneIndex ==
  /\ pc = "list_scene_index"
  /\ \E o \in ListOutcomes :
       /\ Observe("list_scene_index", o)
       /\ calls' = Append(calls, Call("list_scene_index", o.kind))
       /\ CASE o.kind = "value" -> pc' = "get_existing" /\ exc' = exc
            [] o.kind = "empty" -> pc' = "create_announce" /\ exc' = exc
            [] OTHER -> Throw(Failure("list_scene_index"))
  /\ UNCHANGED <<inv, args, text_content, actions, wire, locals, results, first>>

\* lines 60-61: the existing index's scenes, outside any try of _get_scenes.
GetExistingSceneIndex ==
  /\ pc = "get_existing"
  /\ \E o \in SceneOutcomes :
       /\ Observe("get_existing", o)
       /\ calls' = Append(calls, Call("get_scene_index", o.kind))
       /\ IF o.kind = "value"
          THEN scenes' = o.val /\ pc' = "build_prompt" /\ exc' = exc
          ELSE scenes' = scenes /\ Throw(Failure("get_scene_index"))
  /\ UNCHANGED <<inv, args, text_content, actions, wire, transcript, llm_prompt,
                 llm_response, template, results, first>>

\* lines 63-64
CreateAnnounce ==
  /\ pc = "create_announce"
  /\ Announce("create_announce", "Scene index not found. Creating scene index...",
              "index_scene")

\* Mutant of IndexScene: index_scene called outside the try, so its failure
\* reaches the handler of run.
IndexSceneUnguarded ==
  /\ pc = "index_scene"
  /\ \E o \in IndexSceneOutcomes :
       /\ Observe("index_scene", o)
       /\ calls' = Append(calls, Call("index_scene", o.kind))
       /\ CASE o.kind = "value" -> scenes' = scenes /\ pc' = "get_new" /\ exc' = exc
            [] o.kind = "empty" -> scenes' = None /\ pc' = "build_prompt" /\ exc' = exc
            [] OTHER -> scenes' = scenes /\ Throw(Failure("index_scene"))
  /\ UNCHANGED <<inv, args, text_content, actions, wire, transcript, llm_prompt,
                 llm_response, template, results, first>>

\* lines 66-69, 71-76: the creation; a failure or an empty result gives None.
IndexScene ==
  /\ pc = "index_scene"
  /\ \E o \in IndexSceneOutcomes :
       /\ Observe("index_scene", o)
       /\ calls' = Append(calls, Call("index_scene", o.kind))
       /\ IF o.kind = "value"
          THEN scenes' = scenes /\ pc' = "get_new"
          ELSE scenes' = None /\ pc' = "build_prompt"
  /\ UNCHANGED <<inv, args, text_content, actions, wire, transcript, llm_prompt,
                 llm_response, template, exc, results, first>>

\* lines 70, 74-76: the new index's scenes, inside the try of _get_scenes.
GetNewSceneIndex ==
  /\ pc = "get_new"
  /\ \E o \in SceneOutcomes :
       /\ Observe("get_new", o)
       /\ calls' = Append(calls, Call("get_scene_index", o.kind))
       /\ scenes' = IF o.kind = "value" THEN o.val ELSE None
       /\ pc' = "build_prompt"
  /\ UNCHANGED <<inv, args, text_content, actions, wire, transcript, llm_prompt,
                 llm_response, template, exc, results, first>>

----------------------------------------------------------------------------
(* HookTemplateAgent.run, lines 105-199: generation, rendering, reporting *)

\* lines 106-144
BuildPrompt ==
  /\ pc = "build_prompt"
  /\ llm_prompt' = BuildPromptText(args.prompt, transcript, scenes)
  /\ pc' = "generate_announce"
  /\ UNCHANGED <<inv, args, text_content, actions, wire, calls, transcript, scenes,
                 llm_response, template, exc, results, env, first>>

\* lines 147-148
GenerateAnnounce ==
  /\ pc = "generate_announce"
  /\ Announce("generate_announce", "Generating hook template...", "chat_completions")

\* lines 150-156: the completion; a reply without status raises.
ChatCompletions ==
  /\ pc = "chat_completions"
  /\ \E o \in LlmOutcomes :
       /\ Observe("chat_completions", o)
       /\ calls' = Append(calls, Call("chat_completions", o.kind))
       /\ CASE o.kind = "raise" ->
                 llm_response' = llm_response /\ Throw(Failure("chat_completions"))
            [] o.kind = "value" /\ ~o.val.status ->
                 /\ llm_response' = o.val
                 /\ Throw(Exception("Exception", "Failed to generate hook template"))
            [] OTHER ->
                 llm_response' = o.val /\ pc' = "parse_render" /\ exc' = exc
  /\ UNCHANGED <<inv, args, text_content, actions, wire, transcript, scenes, llm_prompt,
                 template, results, first>>

\* lines 159-176: json.loads, then the f-string's six subscripts in order.
ParseAndRender ==
  /\ pc = "parse_render"
  /\ LET content == llm_response.content
     IN  CASE JsonLoadsFails(content) ->
                template' = template
                  /\ Throw(Exception("JSONDecodeError", "Expecting value: line 1 column 1 (char 0)"))
           [] content.kind = "array" ->
                template' = template
                  /\ Throw(Exception("TypeError", "list indices must be integers or slices, not str"))
           [] content.kind = "object" /\ MissingFields(content.members) /= {} ->
                template' = template
                  /\ Throw(Exception("KeyError", FirstMissing(content.members)))
           [] OTHER ->
                template' = Render(content.members) /\ pc' = "publish_success" /\ exc' = exc
  /\ UNCHANGED <<inv, args, text_content, actions, wire, calls, transcript, scenes,
                 llm_prompt, llm_response, results, env, first>>

\* lines 179-182
PublishSuccess ==
  /\ pc = "publish_success"
  /\ \E o \in SinkOutcomes :
       /\ Observe("publish_success", o)
       /\ text_content' = [text_content EXCEPT !.text = template, !.status = "success",
                             !.status_message = "Hook template generated successfully"]
       /\ calls' = Append(calls, Call("publish", o.kind))
       /\ IF o.kind = "ok"
          THEN /\ wire' = Append(wire, Snapshot("publish", text_content', actions))
               /\ pc' = "return_success"
               /\ exc' = exc
          ELSE /\ wire' = wire
               /\ Throw(Failure("publish"))
  /\ UNCHANGED <<inv, args, actions, locals, results, first>>

\* lines 184-188
ReturnSuccess ==
  /\ pc = "return_success"
  /\ run_result' =
       [kind |-> "return",
        response |-> AgentResponse("success",
                                   "Agent " \o agent_name \o " completed successfully.",
                                   {<<"template", template>>})]
  /\ pc' = "safe_return"
  /\ UNCHANGED <<inv, args, text_content, actions, wire, calls, locals, exc, safe_result,
                 env, first>>

\* lines 190-195: the handler; a failure of its publish leaves run.
HandleError ==
  /\ pc = "handle_error"
  /\ IF text_content /= None
     THEN \E o \in SinkOutcomes :
            /\ Observe("handle_error", o)
            /\ text_content' =
                 [text_content EXCEPT !.status = "error",
                    !.status_message = "Error generating hook template: " \o StrOf(exc)]
            /\ calls' = Append(calls, Call("publish", o.kind))
            /\ IF o.kind = "ok"
               THEN /\ wire' = Append(wire, Snapshot("publish", text_content', actions))
                    /\ pc' = "return_error"
                    /\ UNCHANGED <<exc, run_result>>
               ELSE /\ wire' = wire
                    /\ exc' = Failure("publish")
                    /\ run_result' = [kind |-> "raise", exc |-> Failure("publish")]
                    /\ pc' = "safe_except"
     ELSE /\ pc' = "return_error"
          /\ UNCHANGED <<text_content, calls, wire, exc, run_result, env>>
  /\ UNCHANGED <<inv, args, actions, locals, safe_result, first>>

\* lines 196-199
ReturnError ==
  /\ pc = "return_error"
  /\ run_result' =
       [kind |-> "return",
        response |-> AgentResponse("error", "Agent failed with error: " \o StrOf(exc), {})]
  /\ pc' = "safe_return"
  /\ UNCHANGED <<inv, args, text_content, actions, wire, calls, locals, exc, safe_result,
                 env, first>>

----------------------------------------------------------------------------
(* The agent invoked again for the same arguments, once an invocation that   *)
(* had to index the speech has ended: the transcript now exists.             *)

FellBack ==
  /\ "transcript_refetch" \in DOMAIN env
  /\ env["transcript_refetch"].kind = "value"

Reinvoke ==
  /\ pc = "end"
  /\ inv = 1
  /\ FellBack
  /\ first' = [llm_prompt |-> llm_prompt, run_result |-> run_result,
               safe_result |-> safe_result, actions |-> actions, wire |-> wire,
               calls |-> calls]
  /\ inv' = 2
  /\ pc' = "safe_call"
  /\ text_content' = None
  /\ actions' = <<>>
  /\ wire' = <<>>
  /\ calls' = <<>>
  /\ transcript' = None
  /\ scenes' = None
  /\ llm_prompt' = None
  /\ llm_response' = None
  /\ template' = <<>>
  /\ exc' = NoExc
  /\ run_result' = None
  /\ safe_result' = None
  /\ UNCHANGED <<args, env>>

----------------------------------------------------------------------------

Next ==
  \/ SafeCallEnter
  \/ RunInit
  \/ MakeTool
  \/ TranscriptAnnounce
  \/ TranscriptFetch
  \/ IndexAnnounce
  \/ IndexSpokenWords
  \/ TranscriptRefetch
  \/ ScenesAnnounce
  \/ ListSceneIndex
  \/ GetExistingSceneIndex
  \/ CreateAnnounce
  \/ IndexScene
  \/ GetNewSceneIndex
  \/ BuildPrompt
  \/ GenerateAnnounce
  \/ ChatCompletions
  \/ ParseAndRender
  \/ PublishSuccess
  \/ ReturnSuccess
  \/ HandleError
  \/ ReturnError
  \/ SafeCallReturn
  \/ SafeCallExcept
  \/ Reinvoke

Spec == Init /\ [][Next]_vars

----------------------------------------------------------------------------
(* Vocabulary of the properties. *)

Finished == pc = "end"

CallsOf(ops) == {i \in 1..Len(calls) : calls[i].op \in ops}
CallsWith(ops, res) == {i \in CallsOf(ops) : calls[i].res \in res}

SinkFlushes == {"push_update", "publish"}
SceneCalls == {"list_scene_index", "index_scene", "get_scene_index"}
TranscriptCalls == {"get_transcript", "index_spoken_words"}

\* Deliveries whose content object carries a terminal status / the status st.
TerminalMessages == {i \in 1..Len(wire) : wire[i].content.status \in {"success", "error"}}
MessagesWith(st) == {i \in 1..Len(wire) : wire[i].content.status = st}

Returned(st) == run_result.kind = "return" /\ run_result.response.status = st
HasTemplate == run_result.kind = "return" /\ "template" \in Keys(run_result.response.data)

NoSinkFailure == CallsWith(SinkFlushes, {"raise"}) = {}

\* The LLM step went through: a reply with status, well-formed, all six fields.
LlmSucceeded ==
  /\ llm_response /= None
  /\ llm_response.status
  /\ llm_response.content.kind = "object"
  /\ MissingFields(llm_response.content.members) = {}

\* No failure came from the LLM: no raise, and no reply that is not a success.
LlmNotFailed ==
  /\ CallsWith({"chat_completions"}, {"raise"}) = {}
  /\ llm_response /= None => LlmSucceeded

\* The LLM step was reached and failed in one of the three named ways.
GenerationError ==
  /\ llm_response /= None
  /\ \/ ~llm_response.status
     \/ llm_response.content.kind = "malformed"
     \/ /\ llm_response.content.kind = "object"
        /\ MissingFields(llm_response.content.members) /= {}

----------------------------------------------------------------------------
(* C1: every invocation of run publishes exactly one terminal status        *)
(* message (success or error) to the sink, whatever the collaborators do:   *)
(* never two, never a delivery after the terminal one, and not zero once    *)
(* the invocation has ended.                                                *)
C1_ExactlyOneTerminal ==
  /\ Cardinality(TerminalMessages) <= 1
  /\ \A i \in TerminalMessages : i = Len(wire)
  /\ Finished => Cardinality(TerminalMessages) = 1

(* C2: no failure of a collaborator call leaves run: run never raises to    *)
(* its caller, and once an exception has reached the handler run returns a  *)
(* well-formed AgentResponse with status ERROR.                             *)
C2_RunNeverRaises ==
  /\ run_result.kind /= "raise"
  /\ (Finished /\ exc /= NoExc) =>
       /\ Returned("error")
       /\ run_result.response.message = "Agent failed with error: " \o StrOf(exc)

(* C3: a failed scene acquisition (the listing raises or is empty, the      *)
(* creation raises or is empty, get_scene_index raises: no scenes are       *)
(* obtained) is never fatal: with the transcript acquired and no other call *)
(* failing, run returns SUCCESS and the prompt carries the placeholder      *)
(* 'No scenes available'.                                                   *)
SceneAcquisitionFailed ==
  /\ CallsOf({"list_scene_index"}) /= {}
  /\ CallsWith({"get_scene_index"}, {"value"}) = {}
NothingElseFailed ==
  /\ transcript /= None
  /\ NoSinkFailure
  /\ CallsWith({"VideoDBTool"}, {"raise"}) = {}
  /\ LlmNotFailed
C3_SceneFailureNeverFatal ==
  (Finished /\ SceneAcquisitionFailed /\ NothingElseFailed) =>
    /\ Returned("success")
    /\ llm_prompt.scenes = "No scenes available"

(* C4: when the first get_transcript and the one retried after              *)
(* index_spoken_words both fail, no success notification is ever delivered  *)
(* and run returns an AgentResponse with status ERROR and no template.      *)
BothFetchesFailed == Cardinality(CallsWith({"get_transcript"}, {"raise"})) = 2
C4_TranscriptFailureReturnsError ==
  BothFetchesFailed =>
    /\ MessagesWith("success") = {}
    /\ Finished => (Returned("error") /\ ~HasTemplate)

(* C5, as stated: with a retrievable transcript and no existing scene index *)
(* run calls index_scene exactly once and returns SUCCESS with a non-empty  *)
(* template containing the line 'Hook Script:'.                             *)
ListedEmpty == CallsWith({"list_scene_index"}, {"empty"}) /= {}
CreatesOneIndexAndSucceeds ==
  /\ Cardinality(CallsOf({"index_scene"})) = 1
  /\ Returned("success")
  /\ HasTemplate
  /\ \E item \in run_result.response.data :
       /\ item[1] = "template"
       /\ Len(item[2]) > 0
       /\ \E i \in 1..Len(item[2]) : item[2][i] = "Hook Script:"
C5_AsStated ==
  (Finished /\ transcript /= None /\ ListedEmpty) => CreatesOneIndexAndSucceeds

(* C5, amended: the same, provided the LLM does not fail (chat_completions  *)
(* does not raise and its reply has status, is a well-formed JSON object    *)
(* and holds all six fields) and no flush or publish of the sink raises;    *)
(* whether index_scene itself succeeds does not matter.                     *)
C5_Amended ==
  (Finished /\ transcript /= None /\ ListedEmpty /\ LlmNotFailed /\ NoSinkFailure)
    => (CreatesOneIndexAndSucceeds /\ LlmSucceeded)
C5_Witness ==
  /\ Finished /\ inv = 1 /\ transcript /= None /\ ListedEmpty /\ LlmSucceeded
  /\ NoSinkFailure
  /\ CallsWith({"index_scene"}, {"raise"}) /= {}
  /\ Returned("success")

(* C6: the transcript fallback is transparent: an invocation whose first    *)
(* fetch failed, whose indexing succeeded and whose retried fetch returned  *)
(* T sends the same prompt and ends with the same response as an invocation *)
(* meeting the same scene, LLM and sink behaviour whose first fetch returns *)
(* T; the two differ only in the 'Indexing video speech...' notification    *)
(* (and the fallback's calls).                                              *)
IndexingMsg == "Indexing video speech..."
WithoutIndexingMsg(acts) == SelectSeq(acts, LAMBDA a : a /= IndexingMsg)
IsIndexingFlush(m) == Len(m.actions) > 0 /\ m.actions[Len(m.actions)] = IndexingMsg
WithoutIndexingFlush(w) ==
  LET kept == SelectSeq(w, LAMBDA m : ~IsIndexingFlush(m))
  IN  [i \in 1..Len(kept) |-> [kept[i] EXCEPT !.actions = WithoutIndexingMsg(@)]]
WithoutFallbackCalls(c) ==
  LET k == CHOOSE i \in 1..Len(c) : c[i].op = "index_spoken_words"
  IN  SubSeq(c, 1, k - 4) \o SubSeq(c, k + 1, Len(c))
C6_FallbackTransparent ==
  (Finished /\ inv = 2) =>
    /\ transcript = env["transcript_refetch"].val
    /\ llm_prompt = first.llm_prompt
    /\ run_result = first.run_result
    /\ safe_result = first.safe_result
    /\ actions = WithoutIndexingMsg(first.actions)
    /\ Len(first.actions) = Len(actions) + 1
    /\ wire = WithoutIndexingFlush(first.wire)
    /\ Len(first.wire) = Len(wire) + 1
    /\ calls = WithoutFallbackCalls(first.calls)
C6_Witness ==
  /\ Finished /\ inv = 2
  /\ Returned("success")
  /\ Len(transcript.val) > TranscriptLimit
  /\ CallsOf({"index_spoken_words"}) = {}
  /\ first.run_result.response.status = "success"

(* C7: a generation error (the LLM reports non-success, its reply is not    *)
(* well-formed JSON, or the parsed reply lacks one of the six fields) makes *)
(* run return an AgentResponse with status ERROR and no 'template' key,     *)
(* and the content object published to the sink has status error, never    *)
(* success.                                                                 *)
C7_GenerationErrorReturnsError ==
  GenerationError =>
    /\ MessagesWith("success") = {}
    /\ Finished =>
         /\ Returned("error")
         /\ ~HasTemplate
         /\ MessagesWith("error") /= {}

(* C8: safe_call never propagates: when the wrapped entry point raises it   *)
(* returns an AgentResponse with status ERROR whose message is the          *)
(* failure's text; when the entry point returns, it returns that very       *)
(* response.                                                                *)
C8_SafeCall ==
  /\ Finished =>
       /\ safe_result /= None
       /\ run_result.kind = "raise" =>
            /\ safe_result.status = "error"
            /\ safe_result.message = StrOf(run_result.exc)
            /\ safe_result.data = {}
       /\ run_result.kind = "return" => safe_result = run_result.response
  /\ safe_result /= None => Finished
C8_Witness ==
  /\ Finished
  /\ run_result.kind = "raise"
  /\ safe_result.message = "publish failed"

(* C9: the transcript fallback is single-shot: at most two get_transcript   *)
(* calls and one index_spoken_words call; index_spoken_words only right     *)
(* after the first fetch failed and 'Indexing video speech...' was flushed; *)
(* the retried fetch only right after a successful indexing; a failure of   *)
(* the indexing or of the retried fetch is followed by no further           *)
(* collaborator call but the error publish, and the invocation ends in      *)
(* error, never in success.                                                 *)
FallbackFailed ==
  \/ CallsWith({"index_spoken_words"}, {"raise"}) /= {}
  \/ BothFetchesFailed
LastTranscriptCall == CHOOSE k \in CallsOf(TranscriptCalls) : \A i \in CallsOf(TranscriptCalls) : i <= k
OwnStage(c) ==
  CASE c.op = "content.append" -> 1
    [] c.op = "VideoDBTool" -> 2
    [] c.op \in TranscriptCalls -> 3
    [] c.op = "append" /\ c.res \in {"Processing video transcript...", IndexingMsg} -> 3
    [] c.op \in SceneCalls -> 4
    [] c.op = "append" /\ c.res \in {"Analyzing video scenes...",
                                      "Scene index not found. Creating scene index..."} -> 4
    [] c.op = "append" /\ c.res = "Generating hook template..." -> 5
    [] c.op = "chat_completions" -> 6
    [] c.op = "publish" -> 7
    [] OTHER -> 0
\* A flush belongs to the stage of the message it flushes.
Stage(i) ==
  IF calls[i].op = "push_update"
  THEN (IF i > 1 THEN OwnStage(calls[i - 1]) ELSE 0)
  ELSE OwnStage(calls[i])
C10_FixedOrder ==
  /\ \A i \in 1..Len(calls) : Stage(i) > 0
  /\ \A i, j \in 1..Len(calls) : i < j => Stage(i) <= Stage(j)
  /\ Len(calls) > 0 => calls[1] = Call("content.append", "Analyzing video content...")
  /\ \A i \in CallsOf({"append", "content.append"}) :
       i < Len(calls) /\ calls[i + 1].op = "push_update"
  /\ \A i \in CallsOf({"push_update"}) :
       i > 1 /\ calls[i - 1].op \in {"append", "content.append"}
  /\ Cardinality(CallsOf({"chat_completions"})) <= 1
  /\ \A k \in CallsOf({"chat_completions"}) :
       /\ calls[k - 2] = Call("append", "Generating hook template...")
       /\ calls[k - 1] = Call("push_update", "ok")
       /\ transcript /= None
       /\ \E i \in CallsWith({"get_transcript"}, {"value"}) : i < k
       /\ \E i \in CallsOf({"list_scene_index"}) : i < k
       /\ llm_prompt = BuildPromptText(args.prompt, transcript, scenes)
  /\ \A i \in CallsWith({"publish"}, {"ok"}) : i = Len(calls)
C10_Witness ==
  /\ Finished
  /\ inv = 1
  /\ Returned("success")
  /\ CallsOf({"index_spoken_words"}) /= {}
  /\ CallsOf({"index_scene"}) /= {}
  /\ CallsOf({"chat_completions"}) /= {}

====
